---- MODULE Spec2Model ----
(***************************************************************************)
(* A model of the FPVALIDATOR source-convention linter.                   *)
(*                                                                         *)
(* main (src/unnamed/part_000) collects diagnostics over a root path:     *)
(* checkProtoFiles over the .proto files, validateGoFile over the .go     *)
(* files in walk order, then prints them and sets the exit code.          *)
(* validateGoFile, validateTestFileStructure, checkStructParameterUsage,  *)
(* checkMixedCaps and scanFileForPatterns live in src/helpers.go.         *)
(*                                                                         *)
(* Go strings are TLA+ strings (Len, SubSeq and \o act on them).  The Go  *)
(* parser (go/parser) is a library outside the repository: its result,    *)
(* the declaration list of a file, is an input of the model next to the   *)
(* file's raw lines.  A diagnostic, a formatted string "path:line: msg"   *)
(* in the code, is kept as the record [path, line, msg] and formatted by  *)
(* Format when main prints it.                                             *)
(***************************************************************************)
EXTENDS Integers, Sequences, FiniteSets, TLC

VARIABLES root, pc, idx, errs, stdout, exitCode, run, prevErrs

vars == <<root, pc, idx, errs, stdout, exitCode, run, prevErrs>>

(***************************************************************************)
(* Bounds of the model.                                                    *)
(***************************************************************************)
\* longest quoted literal drawn for the error-string rule
MaxLit == 2
\* most declarations in a drawn file
MaxDecls == 2
\* most files in a drawn directory
MaxFiles == 2
\* most fields in a drawn parameter list
MaxFields == 3

(***************************************************************************)
(* package strings, as far as the linter uses it.                          *)
(***************************************************************************)
LowerLetters == "abcdefghijklmnopqrstuvwxyz"
UpperLetters == "ABCDEFGHIJKLMNOPQRSTUVWXYZ"
Digits == "0123456789"

\* the character s[i-1:i], "" outside the string
CharAt(s, i) == IF 1 <= i /\ i <= Len(s) THEN SubSeq(s, i, i) ELSE ""

\* the 1-based place of character c in alphabet, 0 when it is not there
PlaceIn(c, alphabet) ==
    IF \E i \in 1..Len(alphabet) : CharAt(alphabet, i) = c
    THEN CHOOSE i \in 1..Len(alphabet) : CharAt(alphabet, i) = c
    ELSE 0

CharsOf(alphabet) == {CharAt(alphabet, i) : i \in 1..Len(alphabet)}
UpperSet == CharsOf(UpperLetters)
LowerSet == CharsOf(LowerLetters)
DigitSet == CharsOf(Digits)

IsUpper(c) == c \in UpperSet
IsLower(c) == c \in LowerSet
IsDigit(c) == c \in DigitSet
IsLetter(c) == IsUpper(c) \/ IsLower(c)
\* the regexp class \w
IsWordChar(c) == IsLetter(c) \/ IsDigit(c) \/ c = "_"
\* unicode.IsSpace, on the characters a line can hold
IsSpace(c) == c \in {" ", "\t", "\n", "\r"}

UpperChar(c) == IF IsLower(c) THEN CharAt(UpperLetters, PlaceIn(c, LowerLetters)) ELSE c
LowerChar(c) == IF IsUpper(c) THEN CharAt(LowerLetters, PlaceIn(c, UpperLetters)) ELSE c

RECURSIVE ToUpper(_)
ToUpper(s) ==
    IF s = "" THEN "" ELSE UpperChar(CharAt(s, 1)) \o ToUpper(SubSeq(s, 2, Len(s)))

RECURSIVE ToLower(_)
ToLower(s) ==
    IF s = "" THEN "" ELSE LowerChar(CharAt(s, 1)) \o ToLower(SubSeq(s, 2, Len(s)))

HasPrefix(s, p) == Len(p) <= Len(s) /\ SubSeq(s, 1, Len(p)) = p

HasSuffix(s, p) == Len(p) <= Len(s) /\ SubSeq(s, Len(s) - Len(p) + 1, Len(s)) = p

\* strings.Index, 1-based: the first place of p in s, 0 when there is none
Index(s, p) ==
    LET at == {i \in 1..(Len(s) - Len(p) + 1) : SubSeq(s, i, i + Len(p) - 1) = p}
    IN  IF at = {} THEN 0 ELSE CHOOSE i \in at : \A j \in at : i <= j

Contains(s, p) == Index(s, p) # 0

RECURSIVE TrimLeft(_)
TrimLeft(s) ==
    IF s # "" /\ IsSpace(CharAt(s, 1)) THEN TrimLeft(SubSeq(s, 2, Len(s))) ELSE s

RECURSIVE TrimRight(_)
TrimRight(s) ==
    IF s # "" /\ IsSpace(CharAt(s, Len(s))) THEN TrimRight(SubSeq(s, 1, Len(s) - 1)) ELSE s

TrimSpace(s) == TrimRight(TrimLeft(s))

(***************************************************************************)
(* Diagnostics.                                                            *)
(***************************************************************************)
\* the line of a diagnostic whose format has no %d ("%s: failed parsing")
NoLine == -1

Diag(path, line, msg) == [path |-> path, line |-> line, msg |-> msg]

\* fmt.Sprintf("%s:%d: ...") and fmt.Sprintf("%s: ...")
Format(d) ==
    IF d.line = NoLine
    THEN d.path \o ": " \o d.msg
    ELSE d.path \o ":" \o ToString(d.line) \o ": " \o d.msg

\* fmt's %q of a name without characters to escape
Quote(name) == "\"" \o name \o "\""

Range(seq) == {seq[i] : i \in 1..Len(seq)}

RECURSIVE Concat(_)
Concat(seqs) == IF seqs = <<>> THEN <<>> ELSE Head(seqs) \o Concat(Tail(seqs))

(***************************************************************************)
(* scanFileForPatterns: the line-oriented rules.                           *)
(***************************************************************************)
MsgSleep == "avoid time.Sleep, use gnmi.Watch"
MsgCfgPlugin == "cfgplugin function should return gnmi Batch/SetRequest"
MsgPiecemeal == "avoid piecing strings with '+', use fmt.Sprintf or strings.Builder"
MsgCapitalized == "error string should not be capitalized"
MsgPeriod == "error string should not end with '.'"
MsgLogArgs(trimmed) ==
    "t.Log() should not use multiple arguments: " \o trimmed \o ", instead use t.Logf()"
MsgLogfArgs(trimmed) ==
    "t.Logf() must have arguments after format string: " \o trimmed \o ", instead use t.Log()"

\* regexp "(.*?)": the text between the first quote and the next one
extractStringLiteral(line) ==
    LET i == Index(line, "\"")
        rest == SubSeq(line, i + 1, Len(line))
        j == Index(rest, "\"")
    IN  IF i = 0 \/ j = 0 THEN "" ELSE SubSeq(rest, 1, j - 1)

\* the calls whose literal the error-string rule looks at
IsErrorCallLine(line) ==
    Contains(line, "t.Errorf(") \/ Contains(line, "t.Error(") \/ Contains(line, "fmt.Errorf(")

\* the loop over args: the number of commas met outside quotes
RECURSIVE CommasOutsideQuotes(_, _)
CommasOutsideQuotes(args, inQuotes) ==
    IF args = "" THEN 0
    ELSE LET r == CharAt(args, 1)
             rest == SubSeq(args, 2, Len(args))
         IN  IF r = "\"" THEN CommasOutsideQuotes(rest, ~inQuotes)
             ELSE IF r = "," /\ ~inQuotes THEN 1 + CommasOutsideQuotes(rest, inQuotes)
             ELSE CommasOutsideQuotes(rest, inQuotes)

\* regexp ^call(.*)\)$ with call = "t.Log(" or "t.Logf("
MatchesCall(trimmed, call) == HasPrefix(trimmed, call) /\ HasSuffix(trimmed, ")")
                              /\ Len(trimmed) >= Len(call) + 1

CallArgs(trimmed, call) == SubSeq(trimmed, Len(call) + 1, Len(trimmed) - 1)

ErrorStringDiags(path, line, lineNo) ==
    IF ~IsErrorCallLine(line) THEN <<>>
    ELSE LET msg == extractStringLiteral(line)
         IN  IF msg = "" THEN <<>>
             ELSE (IF HasPrefix(msg, ToUpper(SubSeq(msg, 1, 1)))
                   THEN <<Diag(path, lineNo, MsgCapitalized)>> ELSE <<>>)
                  \o (IF HasSuffix(msg, ".")
                      THEN <<Diag(path, lineNo, MsgPeriod)>> ELSE <<>>)

LogDiags(path, line, lineNo) ==
    IF ~HasSuffix(path, "_test.go") THEN <<>>
    ELSE LET trimmed == TrimSpace(line)
         IN  (IF MatchesCall(trimmed, "t.Log(")
                 /\ CommasOutsideQuotes(CallArgs(trimmed, "t.Log("), FALSE) > 0
              THEN <<Diag(path, lineNo, MsgLogArgs(trimmed))>> ELSE <<>>)
             \o (IF MatchesCall(trimmed, "t.Logf(")
                    /\ CommasOutsideQuotes(CallArgs(trimmed, "t.Logf("), FALSE) + 1 < 2
                 THEN <<Diag(path, lineNo, MsgLogfArgs(trimmed))>> ELSE <<>>)

\* the body of the scanner loop for one line
ScanLine(path, line, lineNo) ==
    (IF Contains(line, "time.Sleep(") THEN <<Diag(path, lineNo, MsgSleep)>> ELSE <<>>)
    \o (IF Contains(path, "cfgplugins") /\ Contains(line, "func") /\ Contains(line, "{")
           /\ ~Contains(line, "gnmi.SetRequest") /\ ~Contains(line, "gnmi.Batch")
        THEN <<Diag(path, lineNo, MsgCfgPlugin)>> ELSE <<>>)
    \o (IF Contains(line, "\" + \"") THEN <<Diag(path, lineNo, MsgPiecemeal)>> ELSE <<>>)
    \o ErrorStringDiags(path, line, lineNo)
    \o LogDiags(path, line, lineNo)

scanFileForPatterns(path, lines) ==
    Concat([i \in 1..Len(lines) |-> ScanLine(path, lines[i], i)])

(***************************************************************************)
(* The parsed file: what go/parser hands to the rules.                     *)
(*                                                                         *)
(* A type expression is [star, base, pkg, name]: base "ident" (int),       *)
(* "struct" (struct{...}) or "sel" (pkg.name), behind a * when star.       *)
(* A field of a parameter list is [names, type]: `a, b int` is ONE field   *)
(* with two names.  A function declaration carries what the rules read of  *)
(* its body: the identifiers x with a call x.Helper(), whether it holds a  *)
(* slice-like declaration and whether it holds a range loop.               *)
(***************************************************************************)
Type(star, base, pkg, name) == [star |-> star, base |-> base, pkg |-> pkg, name |-> name]

Field(names, type) == [names |-> names, type |-> type]

FuncDecl(name, hasDoc, doc, recv, params, helperOn, sliceDecl, rangeStmt) ==
    [kind |-> "func", name |-> name, hasDoc |-> hasDoc, doc |-> doc, recv |-> recv,
     params |-> params, helperOn |-> helperOn, sliceDecl |-> sliceDecl,
     rangeStmt |-> rangeStmt, line |-> 0]

\* a var, const or type declaration of one spec; typeName is the %s of an ident type
GenDecl(tok, names, hasType, typeName) ==
    [kind |-> "gen", tok |-> tok, names |-> names, hasType |-> hasType,
     typeName |-> typeName, line |-> 0]

\* ast.Ident.IsExported
IsExported(name) == name # "" /\ IsUpper(CharAt(name, 1))

(***************************************************************************)
(* checkStructParameterUsage and its predicates.                           *)
(***************************************************************************)
MsgParams(name) ==
    "function " \o name \o " has multiple parameters, consider using a single config struct"

isAllowedParam(t) == t.star /\ t.base = "sel" /\ t.name \in {"T", "DUTDevice"}

isStructType(t) == ~t.star /\ t.base = "struct"

isPointerToStruct(t) == t.star /\ t.base = "struct"

allParamsAllowed(params) == \A i \in 1..Len(params) : isAllowedParam(params[i].type)

\* the loop over fn.Type.Params.List: one step per FIELD
nonStructCount(params) ==
    Cardinality({i \in 1..Len(params) :
        /\ ~isAllowedParam(params[i].type)
        /\ ~isStructType(params[i].type)
        /\ ~isPointerToStruct(params[i].type)})

checkStructParameterUsage(path, fn) ==
    IF Len(fn.params) = 0 THEN <<>>
    ELSE IF Len(fn.params) <= 2 /\ allParamsAllowed(fn.params) THEN <<>>
    ELSE IF nonStructCount(fn.params) > 1
         THEN <<Diag(path, fn.line, MsgParams(fn.name))>>
         ELSE <<>>

(***************************************************************************)
(* validateTestFileStructure.                                              *)
(***************************************************************************)
MsgMissingTestMain == "missing TestMain function"
MsgNoTests == "no test functions found"
MsgMultipleTests ==
    "multiple top-level test functions found; please follow table-driven approach ref: https://go.dev/wiki/TableDrivenTests"
MsgNotTableDriven(name) ==
    "test function " \o name \o " does not follow table-driven test pattern. Please follow table driven approach ref: https://go.dev/wiki/TableDrivenTests"

IsPtrTo(t, pkg, name) == t.star /\ t.base = "sel" /\ t.pkg = pkg /\ t.name = name

\* the branch that ends in `continue`: a function named TestMain with one field
IsTestMainShape(d) == d.kind = "func" /\ d.name = "TestMain" /\ Len(d.params) = 1

hasTestMain(decls) ==
    \E i \in 1..Len(decls) :
        IsTestMainShape(decls[i]) /\ IsPtrTo(decls[i].params[1].type, "testing", "M")

testFuncs(decls) ==
    LET IsTest(d) == d.kind = "func" /\ ~IsTestMainShape(d) /\ HasPrefix(d.name, "Test")
    IN  SelectSeq(decls, IsTest)

validateTestFileStructure(path, decls) ==
    LET tests == testFuncs(decls)
        missing == IF ~hasTestMain(decls)
                   THEN <<Diag(path, NoLine, MsgMissingTestMain)>> ELSE <<>>
    IN  IF Len(tests) = 0
        THEN missing \o <<Diag(path, NoLine, MsgNoTests)>>
        ELSE missing
             \o (IF Len(tests) > 1 THEN <<Diag(path, NoLine, MsgMultipleTests)>> ELSE <<>>)
             \o (IF ~(tests[1].sliceDecl /\ tests[1].rangeStmt)
                 THEN <<Diag(path, NoLine, MsgNotTableDriven(tests[1].name))>>
                 ELSE <<>>)

(***************************************************************************)
(* checkMixedCaps.  It asks a NEW, empty token.FileSet for the position of *)
(* every declaration, and an empty file set answers the zero Position:     *)
(* line 0.                                                                 *)
(***************************************************************************)
\* fset.Position(pos).Line for the fresh fset of checkMixedCaps
EmptyFileSetLine == 0

RECURSIVE AllAlnum(_)
AllAlnum(s) ==
    s = "" \/ ((IsLetter(CharAt(s, 1)) \/ IsDigit(CharAt(s, 1))) /\ AllAlnum(SubSeq(s, 2, Len(s))))

\* ^[A-Z][A-Za-z0-9]*$
exportedMixedCaps(name) == name # "" /\ IsUpper(CharAt(name, 1)) /\ AllAlnum(SubSeq(name, 2, Len(name)))

\* ^[a-z][A-Za-z0-9]*$
unexportedMixedCaps(name) == name # "" /\ IsLower(CharAt(name, 1)) /\ AllAlnum(SubSeq(name, 2, Len(name)))

snakeCase(name) == Contains(name, "_")

badAcronyms(name) == Contains(name, "Id") \/ Contains(name, "Url") \/ Contains(name, "Http")

MixedCapsFunc(path, fn) ==
    LET q == Quote(fn.name)
        l == EmptyFileSetLine
    IN  (IF snakeCase(fn.name)
         THEN <<Diag(path, l, "function name " \o q \o " should not use snake_case")>> ELSE <<>>)
        \o (IF IsExported(fn.name)
            THEN IF ~exportedMixedCaps(fn.name)
                 THEN <<Diag(path, l, "exported function name " \o q \o " should use MixedCaps")>>
                 ELSE <<>>
            ELSE IF ~unexportedMixedCaps(fn.name)
                 THEN <<Diag(path, l, "unexported function name " \o q \o " should use mixedCaps")>>
                 ELSE <<>>)
        \o (IF badAcronyms(fn.name)
            THEN <<Diag(path, l, "function name " \o q \o " has mis-cased acronym (use ID/URL/HTTP)")>>
            ELSE <<>>)

\* what: "type" for a TypeSpec, "variable"/"var" for a name of a ValueSpec
MixedCapsName(path, name, what, short) ==
    LET q == Quote(name)
        l == EmptyFileSetLine
    IN  (IF snakeCase(name)
         THEN <<Diag(path, l, what \o " name " \o q \o " should not use snake_case")>> ELSE <<>>)
        \o (IF IsExported(name) /\ ~exportedMixedCaps(name)
            THEN <<Diag(path, l, "exported " \o short \o " name " \o q \o " should use MixedCaps")>>
            ELSE <<>>)
        \o (IF badAcronyms(name)
            THEN <<Diag(path, l, what \o " name " \o q \o " has mis-cased acronym")>> ELSE <<>>)

MixedCapsDecl(path, d) ==
    IF d.kind = "func" THEN MixedCapsFunc(path, d)
    ELSE IF d.tok = "type" THEN MixedCapsName(path, d.names[1], "type", "type")
    ELSE Concat([i \in 1..Len(d.names) |-> MixedCapsName(path, d.names[i], "variable", "var")])

checkMixedCaps(path, decls) ==
    Concat([i \in 1..Len(decls) |-> MixedCapsDecl(path, decls[i])])

(***************************************************************************)
(* validateGoFile.                                                         *)
(***************************************************************************)
MsgParseFailure == "failed parsing"
MsgMissingDoc(name) == "exported function " \o name \o " must have doc comment"
MsgDocPeriod == "function comment should end with '.'"
MsgGetPrefix(name) == "function " \o name \o " should not use Get prefix"
MsgHelper(name, tName) ==
    "test helper function " \o name \o " should call " \o tName \o ".Helper()"
MsgLowercase(name) == "test function " \o name \o " must start with lowercase letter"
MsgUnderscore(name) == "identifier " \o name \o " should not contain underscores"
MsgRepeatsType(name, typeName) ==
    "variable " \o name \o " repeats its type " \o typeName \o " in name"

\* DocDiags with the `else` lost: the period check also runs without a doc comment
DocDiagsNoElse(path, fn) ==
    IF IsExported(fn.name) /\ ~HasPrefix(fn.name, "Test")
    THEN (IF ~fn.hasDoc THEN <<Diag(path, fn.line, MsgMissingDoc(fn.name))>> ELSE <<>>)
         \o (IF ~HasSuffix(TrimSpace(fn.doc), ".")
             THEN <<Diag(path, fn.line, MsgDocPeriod)>> ELSE <<>>)
    ELSE <<>>

DocDiags(path, fn) ==
    IF IsExported(fn.name) /\ ~HasPrefix(fn.name, "Test")
    THEN IF ~fn.hasDoc
         THEN <<Diag(path, fn.line, MsgMissingDoc(fn.name))>>
         ELSE IF ~HasSuffix(TrimSpace(fn.doc), ".")
              THEN <<Diag(path, fn.line, MsgDocPeriod)>>
              ELSE <<>>
    ELSE <<>>

GetDiags(path, fn) ==
    IF HasPrefix(fn.name, "Get")
    THEN <<Diag(path, fn.line, MsgGetPrefix(fn.name))>> ELSE <<>>

\* the first parameter of type *testing.T that has a name: its first name, else ""
tNameOf(params) ==
    LET hits == {i \in 1..Len(params) :
                    IsPtrTo(params[i].type, "testing", "T") /\ Len(params[i].names) > 0}
    IN  IF hits = {} THEN ""
        ELSE params[CHOOSE i \in hits : \A j \in hits : i <= j].names[1]

IsTestHelperCandidate(path, fn) ==
    HasSuffix(path, "_test.go") /\ ~fn.recv /\ ~HasPrefix(fn.name, "Test")

HelperDiags(path, fn) ==
    IF IsTestHelperCandidate(path, fn) /\ tNameOf(fn.params) # ""
       /\ tNameOf(fn.params) \notin fn.helperOn
    THEN <<Diag(path, fn.line, MsgHelper(fn.name, tNameOf(fn.params)))>>
    ELSE <<>>

CasingDiags(path, fn) ==
    IF IsTestHelperCandidate(path, fn) /\ Len(fn.name) > 0
       /\ ToUpper(SubSeq(fn.name, 1, 1)) = SubSeq(fn.name, 1, 1)
    THEN <<Diag(path, fn.line, MsgLowercase(fn.name))>>
    ELSE <<>>

\* the body of the first loop over f.Decls, for one declaration
FuncDiags(path, d) ==
    IF d.kind # "func" THEN <<>>
    ELSE DocDiags(path, d) \o GetDiags(path, d) \o HelperDiags(path, d)
         \o CasingDiags(path, d) \o checkStructParameterUsage(path, d)

\* f.Scope.Objects, the parser's map from a top-level name to its object: functions
\* that are no methods and are not init, and the names of var, const and type
\* declarations; never "_"; the first declaration of a name wins.
DeclaredNames(d) ==
    IF d.kind = "func"
    THEN IF ~d.recv /\ d.name # "init" THEN {d.name} ELSE {}
    ELSE Range(d.names)

ScopeObjects(decls) ==
    {[name |-> n, line |-> decls[i].line] :
        <<n, i>> \in {<<m, k>> \in (UNION {DeclaredNames(decls[j]) : j \in 1..Len(decls)})
                                     \X (1..Len(decls)) :
                        /\ m # "_"
                        /\ m \in DeclaredNames(decls[k])
                        /\ \A j \in 1..(k - 1) : m \notin DeclaredNames(decls[j])}}

RECURSIVE Perms(_)
Perms(S) ==
    IF S = {} THEN {<<>>}
    ELSE UNION {{<<x>> \o q : q \in Perms(S \ {x})} : x \in S}

\* the orders in which `range f.Scope.Objects` can visit the objects: Go leaves the
\* iteration order of a map unspecified
ObjectOrders(decls) == Perms(ScopeObjects(decls))

\* UnderscoreDiags with a `break` after the first report
UnderscoreDiagsFirstOnly(path, order) ==
    LET hits == {i \in 1..Len(order) : Contains(order[i].name, "_")}
        first == CHOOSE i \in hits : \A j \in hits : i <= j
    IN  IF hits = {} THEN <<>>
        ELSE <<Diag(path, order[first].line, MsgUnderscore(order[first].name))>>

\* the loop over f.Scope.Objects, visiting them in `order`
UnderscoreDiags(path, order) ==
    Concat([i \in 1..Len(order) |->
        IF Contains(order[i].name, "_")
        THEN <<Diag(path, order[i].line, MsgUnderscore(order[i].name))>>
        ELSE <<>>])

\* the second loop over f.Decls, for one declaration
VarTypeDiags(path, d) ==
    IF d.kind = "gen" /\ d.tok = "var" /\ d.hasType
    THEN Concat([i \in 1..Len(d.names) |->
            IF Contains(ToLower(d.names[i]), ToLower(d.typeName))
            THEN <<Diag(path, d.line, MsgRepeatsType(d.names[i], d.typeName))>>
            ELSE <<>>])
    ELSE <<>>

\* the diagnostics validateGoFile appends for file f when the map is visited in `order`
FileDiags(f, order) ==
    IF f.parseErr
    THEN <<Diag(f.path, NoLine, MsgParseFailure)>>
    ELSE (IF HasSuffix(f.path, "_test.go")
          THEN validateTestFileStructure(f.path, f.decls) ELSE <<>>)
         \o Concat([i \in 1..Len(f.decls) |-> FuncDiags(f.path, f.decls[i])])
         \o UnderscoreDiags(f.path, order)
         \o Concat([i \in 1..Len(f.decls) |-> VarTypeDiags(f.path, f.decls[i])])
         \o checkMixedCaps(f.path, f.decls)
         \o scanFileForPatterns(f.path, f.lines)

\* validateGoFile assigning to *errs where it should append
validateGoFileOverwrite(f, order, es) == FileDiags(f, order)

\* validateGoFile(path, &errs): es is *errs before the call, the value is *errs after
validateGoFile(f, order, es) == es \o FileDiags(f, order)

(***************************************************************************)
(* checkProtoFiles.                                                        *)
(***************************************************************************)
MsgBareBug(id) ==
    "found bare bug ID " \o id
    \o ", please use full URL like https://example.corp.example.com/issues/" \o id

\* the places i of "b/" where regexp \b\w+\s+b/(\d{9})\b matches: a word character,
\* then white space up to i, nine digits after it, and no word character next
BareBugPlaces(line) ==
    {i \in 1..Len(line) :
        /\ i + 10 <= Len(line)
        /\ SubSeq(line, i, i + 1) = "b/"
        /\ \A k \in 2..10 : IsDigit(CharAt(line, i + k))
        /\ (i + 11 > Len(line) \/ ~IsWordChar(CharAt(line, i + 11)))
        /\ \E w \in 1..(i - 2) :
              /\ IsWordChar(CharAt(line, w))
              /\ \A k \in (w + 1)..(i - 1) : IsSpace(CharAt(line, k))}

\* matches[1] of the leftmost match, "" when the line has none
BareBugID(line) ==
    LET at == BareBugPlaces(line)
        i == CHOOSE i \in at : \A j \in at : i <= j
    IN  IF at = {} THEN "" ELSE SubSeq(line, i + 2, i + 10)

ProtoFileDiags(f) ==
    Concat([n \in 1..Len(f.lines) |->
        IF BareBugID(f.lines[n]) # ""
        THEN <<Diag(f.path, n, MsgBareBug(BareBugID(f.lines[n])))>>
        ELSE <<>>])

\* filepath.Walk(root, fn): the regular files under root, in lexical order; a root
\* that is a file is walked as that file, a root that does not exist as nothing
Walked(r) == IF r.kind \in {"dir", "file"} THEN r.files ELSE <<>>

checkProtoFiles(r) ==
    Concat([i \in 1..Len(Walked(r)) |->
        IF HasSuffix(Walked(r)[i].path, ".proto") THEN ProtoFileDiags(Walked(r)[i]) ELSE <<>>])

(***************************************************************************)
(* The inputs: files and roots.                                            *)
(***************************************************************************)
MkFile(path, parseErr, decls, lines) ==
    [path |-> path, parseErr |-> parseErr, decls |-> decls, lines |-> lines]

\* declaration i of a file starts on line 2i+1 (line 1 is the package clause and a
\* doc comment sits on the line before its function)
Numbered(ds) == [i \in 1..Len(ds) |-> [ds[i] EXCEPT !.line = 2 * i + 1]]

TInt == Type(FALSE, "ident", "", "int")
TStruct == Type(FALSE, "struct", "", "")
TPtrStruct == Type(TRUE, "struct", "", "")
TPtrT == Type(TRUE, "sel", "testing", "T")
TPtrM == Type(TRUE, "sel", "testing", "M")
TPtrConfig == Type(TRUE, "ident", "", "Config")

PlainFunc(name, hasDoc, doc) == FuncDecl(name, hasDoc, doc, FALSE, <<>>, {}, FALSE, FALSE)

TestFunc(name, table) ==
    FuncDecl(name, FALSE, "", FALSE, <<Field(<<"t">>, TPtrT)>>, {}, table, table)

\* the declarations drawn in every combination
DeclCatalog ==
    { PlainFunc("Foo", FALSE, ""),
      PlainFunc("Foo", TRUE, "Foo does x.\n"),
      PlainFunc("Bar", TRUE, "Bar does x\n"),
      PlainFunc("GetUserId", FALSE, ""),
      PlainFunc("my_func", FALSE, ""),
      TestFunc("TestAlpha", TRUE),
      TestFunc("TestBeta", FALSE),
      GenDecl("var", <<"max_len">>, TRUE, "int") }

\* further declaration lists, each drawn as it stands
ExtraDeclSeqs ==
    { <<FuncDecl("TestMain", FALSE, "", FALSE, <<Field(<<"m">>, TPtrM)>>, {}, FALSE, FALSE),
        TestFunc("TestAlpha", TRUE)>>,
      <<FuncDecl("helper", FALSE, "", FALSE, <<Field(<<"t">>, TPtrT)>>, {}, FALSE, FALSE),
        FuncDecl("setup", FALSE, "", FALSE,
                 <<Field(<<"t">>, TPtrT), Field(<<"a">>, TInt), Field(<<"b">>, TInt)>>,
                 {"t"}, FALSE, FALSE)>>,
      <<PlainFunc("Baz", TRUE, ""), GenDecl("var", <<"intCount">>, TRUE, "int"),
        GenDecl("type", <<"My_type">>, FALSE, "")>> }

RECURSIVE SeqsUpTo(_, _)
SeqsUpTo(S, n) ==
    IF n = 0 THEN {<<>>}
    ELSE SeqsUpTo(S, n - 1) \cup {Append(q, x) : q \in SeqsUpTo(S, n - 1), x \in S}

DeclSeqs == {Numbered(ds) : ds \in SeqsUpTo(DeclCatalog, MaxDecls) \cup ExtraDeclSeqs}

TextCatalog ==
    { "time.Sleep(1)", "x := 1", "t.Errorf(\"Bad.\")", "t.Log(\"a, b\", c)",
      "\tt.Logf(\"done\")", "s := \"a\" + \"b\"", "func Apply() {",
      "func Apply() gnmi.SetRequest {" }

TextSeqs == {<<l>> : l \in TextCatalog} \cup {<<"x := 1", l>> : l \in TextCatalog}

GoPaths == {"a.go", "a_test.go"}

GoFiles ==
    {MkFile(p, FALSE, ds, <<>>) : p \in GoPaths, ds \in DeclSeqs}
    \cup {MkFile(p, FALSE, <<>>, ls) : p \in GoPaths \cup {"cfgplugins/a.go"}, ls \in TextSeqs}
    \cup {MkFile(p, TRUE, <<>>, ls) : p \in GoPaths, ls \in {<<>>, <<"time.Sleep(1)">>}}

ProtoLines ==
    { "// fix this b/123456789", "// see https://example.com/issues/123456789",
      "// b/123456789", "// fix b/1234567890", "// fix b/12345" }

ProtoFiles(path) ==
    {MkFile(path, FALSE, <<>>, ls) : ls \in {<<>>} \cup {<<l>> : l \in ProtoLines}
                                          \cup {<<"syntax = 3;", l>> : l \in ProtoLines}}

\* the entries a drawn directory can hold, in the lexical order of filepath.Walk,
\* each with the contents it can have
DirSlots ==
    << { MkFile("d/a.go", TRUE, <<>>, <<"time.Sleep(1)">>),
         MkFile("d/a.go", FALSE,
                Numbered(<<PlainFunc("my_func", FALSE, ""), GenDecl("var", <<"max_len">>, TRUE, "int")>>),
                <<>>) },
       { MkFile("d/a_test.go", FALSE, Numbered(<<TestFunc("TestBeta", FALSE), TestFunc("TestAlpha", TRUE)>>), <<>>),
         MkFile("d/a_test.go", TRUE, <<>>, <<>>) },
       { MkFile("d/b.proto", FALSE, <<>>, <<"// fix this b/123456789">>),
         MkFile("d/b.proto", FALSE, <<>>, <<"// ok">>) },
       { MkFile("d/cfgplugins/c.go", FALSE, <<>>, <<"func Apply() {">>),
         MkFile("d/cfgplugins/c.go", FALSE, <<>>, <<>>) },
       { MkFile("d/notes.txt", FALSE, <<>>, <<"time.Sleep(1)">>) } >>

NthOf(S, i) == CHOOSE x \in S : Cardinality({y \in S : y < x}) = i - 1

DirListings ==
    UNION {
        { [i \in 1..Cardinality(S) |-> pick[NthOf(S, i)]] :
            pick \in {q \in [S -> UNION Range(DirSlots)] : \A k \in S : q[k] \in DirSlots[k]} } :
        S \in {T \in SUBSET (1..Len(DirSlots)) : Cardinality(T) <= MaxFiles} }

Root(kind, path, files) == [kind |-> kind, path |-> path, files |-> files]

FileRoot(f) == Root("file", f.path, <<f>>)

Roots ==
    {Root("noarg", "", <<>>), Root("missing", "nowhere", <<>>)}
    \cup {FileRoot(f) : f \in GoFiles \cup ProtoFiles("b.proto")}
    \cup {FileRoot(MkFile("notes.txt", FALSE, <<>>, <<"time.Sleep(1)">>))}
    \cup {Root("dir", "d", fs) : fs \in DirListings}

(***************************************************************************)
(* main, one action per step of it.                                        *)
(***************************************************************************)
\* the exit code of a process that has not exited
NoExit == -1
\* how often the program is invoked on the same root
MaxRuns == 2

Init ==
    /\ root \in Roots
    /\ pc = "start"
    /\ idx = 0
    /\ errs = <<>>
    /\ stdout = <<>>
    /\ exitCode = NoExit
    /\ run = 1
    /\ prevErrs = <<>>

\* len(os.Args) < 2
Usage ==
    /\ pc = "start"
    /\ root.kind = "noarg"
    /\ stdout' = Append(stdout, "Usage: go run main.go <path>")
    /\ exitCode' = 0
    /\ pc' = "exit"
    /\ UNCHANGED <<root, idx, errs, run, prevErrs>>

\* errs = append(errs, checkProtoFiles(root)...)
CheckProto ==
    /\ pc = "start"
    /\ root.kind # "noarg"
    /\ errs' = errs \o checkProtoFiles(root)
    /\ pc' = "stat"
    /\ UNCHANGED <<root, idx, stdout, exitCode, run, prevErrs>>

\* os.Stat fails
InvalidPath ==
    /\ pc = "stat"
    /\ root.kind = "missing"
    /\ stdout' = Append(stdout, "Invalid path: stat " \o root.path \o ": no such file or directory")
    /\ exitCode' = 0
    /\ pc' = "exit"
    /\ UNCHANGED <<root, idx, errs, run, prevErrs>>

EnterDir ==
    /\ pc = "stat"
    /\ root.kind = "dir"
    /\ idx' = 1
    /\ pc' = "walk"
    /\ UNCHANGED <<root, errs, stdout, exitCode, run, prevErrs>>

\* the walk function on a .go file
WalkGoFile ==
    /\ pc = "walk"
    /\ idx <= Len(root.files)
    /\ HasSuffix(root.files[idx].path, ".go")
    /\ \E order \in ObjectOrders(root.files[idx].decls) :
          errs' = validateGoFile(root.files[idx], order, errs)
    /\ idx' = idx + 1
    /\ UNCHANGED <<root, pc, stdout, exitCode, run, prevErrs>>

\* the walk function on any other file
WalkSkip ==
    /\ pc = "walk"
    /\ idx <= Len(root.files)
    /\ ~HasSuffix(root.files[idx].path, ".go")
    /\ idx' = idx + 1
    /\ UNCHANGED <<root, pc, errs, stdout, exitCode, run, prevErrs>>

WalkDone ==
    /\ pc = "walk"
    /\ idx > Len(root.files)
    /\ pc' = "report"
    /\ UNCHANGED <<root, idx, errs, stdout, exitCode, run, prevErrs>>

\* the root is a file with suffix .go
SingleGoFile ==
    /\ pc = "stat"
    /\ root.kind = "file"
    /\ HasSuffix(root.path, ".go")
    /\ \E order \in ObjectOrders(root.files[1].decls) :
          errs' = validateGoFile(root.files[1], order, errs)
    /\ pc' = "report"
    /\ UNCHANGED <<root, idx, stdout, exitCode, run, prevErrs>>

\* the root is a file without suffix .go: print and return
NotGoFile ==
    /\ pc = "stat"
    /\ root.kind = "file"
    /\ ~HasSuffix(root.path, ".go")
    /\ stdout' = Append(stdout, "Provided file is not a .go file")
    /\ exitCode' = 0
    /\ pc' = "exit"
    /\ UNCHANGED <<root, idx, errs, run, prevErrs>>

\* len(errs) > 0: the header, every diagnostic, os.Exit(1)
ReportFailed ==
    /\ pc = "report"
    /\ Len(errs) > 0
    /\ stdout' = Append(stdout, "Validation failed:")
                 \o [i \in 1..Len(errs) |-> " - " \o Format(errs[i])]
    /\ exitCode' = 1
    /\ pc' = "exit"
    /\ UNCHANGED <<root, idx, errs, run, prevErrs>>

ReportPassed ==
    /\ pc = "report"
    /\ Len(errs) = 0
    /\ stdout' = Append(stdout, "All validation checks passed")
    /\ exitCode' = 0
    /\ pc' = "exit"
    /\ UNCHANGED <<root, idx, errs, run, prevErrs>>

\* the program is started again on the same, unchanged root; prevErrs keeps the
\* diagnostics of the run before
Rerun ==
    /\ pc = "exit"
    /\ run < MaxRuns
    /\ prevErrs' = errs
    /\ errs' = <<>>
    /\ stdout' = <<>>
    /\ exitCode' = NoExit
    /\ idx' = 0
    /\ pc' = "start"
    /\ run' = run + 1
    /\ UNCHANGED root

Next ==
    \/ Usage
    \/ CheckProto
    \/ InvalidPath
    \/ EnterDir
    \/ WalkGoFile
    \/ WalkSkip
    \/ WalkDone
    \/ SingleGoFile
    \/ NotGoFile
    \/ ReportFailed
    \/ ReportPassed
    \/ Rerun

Spec == Init /\ [][Next]_vars

(***************************************************************************)
(* scanFileForPatterns alone, over drawn lines.                            *)
(***************************************************************************)
LitAlphabet == {"S", "s", "1", "%", "."}

RECURSIVE Lits(_)
Lits(n) ==
    IF n = 0 THEN {""}
    ELSE Lits(n - 1) \cup {l \o c : l \in Lits(n - 1), c \in LitAlphabet}

ErrCalls == {"t.Errorf(", "t.Error(", "fmt.Errorf(", "errors.New("}

ScanLines ==
    {c \o "\"" \o l \o "\")" : c \in ErrCalls, l \in Lits(MaxLit) \cup {"Something failed."}}
    \cup {"t.Error(err)", "t.Errorf(\"Bad", "x := 1"}

ScanRoots ==
    {FileRoot(MkFile(p, FALSE, <<>>, ls)) :
        p \in GoPaths, ls \in {<<l>> : l \in ScanLines} \cup {<<"x := 1", l>> : l \in ScanLines}}

InitScan ==
    /\ root \in ScanRoots
    /\ pc = "start"
    /\ idx = 0
    /\ errs = <<>>
    /\ stdout = <<>>
    /\ exitCode = NoExit
    /\ run = 1
    /\ prevErrs = <<>>

ScanFile ==
    /\ pc = "start"
    /\ errs' = scanFileForPatterns(root.path, root.files[1].lines)
    /\ pc' = "scanned"
    /\ UNCHANGED <<root, idx, stdout, exitCode, run, prevErrs>>

NextScan == ScanFile

SpecScan == InitScan /\ [][NextScan]_vars

(***************************************************************************)
(* checkStructParameterUsage alone, over drawn parameter lists.            *)
(***************************************************************************)
FieldCatalog ==
    {Field(ns, t) : ns \in {<<"a">>, <<"a", "b">>},
                    t \in {TInt, TStruct, TPtrStruct, TPtrT, TPtrConfig}}

ParamRoots ==
    {FileRoot(MkFile("a.go", FALSE,
                     Numbered(<<FuncDecl("run", FALSE, "", FALSE, ps, {}, FALSE, FALSE)>>), <<>>)) :
        ps \in SeqsUpTo(FieldCatalog, MaxFields)}

InitParams ==
    /\ root \in ParamRoots
    /\ pc = "start"
    /\ idx = 0
    /\ errs = <<>>
    /\ stdout = <<>>
    /\ exitCode = NoExit
    /\ run = 1
    /\ prevErrs = <<>>

CheckParams ==
    /\ pc = "start"
    /\ errs' = checkStructParameterUsage(root.path, root.files[1].decls[1])
    /\ pc' = "checked"
    /\ UNCHANGED <<root, idx, stdout, exitCode, run, prevErrs>>

NextParams == CheckParams

SpecParams == InitParams /\ [][NextParams]_vars

(***************************************************************************)
(* The properties.                                                         *)
(***************************************************************************)
IsGo(f) == HasSuffix(f.path, ".go")

\* the files validateGoFile is called on in a run over root r
GoFilesOf(r) ==
    IF r.kind = "dir" THEN SelectSeq(r.files, IsGo)
    ELSE IF r.kind = "file" /\ IsGo(r.files[1]) THEN r.files
    ELSE <<>>

\* main is past its calls of validateGoFile
Analysed == pc \in {"report", "exit"}

Count(seq, x) == Cardinality({i \in 1..Len(seq) : seq[i] = x})

DiagsOf(seq, path) == LET Here(d) == d.path = path IN SelectSeq(seq, Here)

IsPrefixOf(a, b) == Len(a) <= Len(b) /\ SubSeq(b, 1, Len(a)) = a

\* C1: a file whose parse fails gets exactly one parse-failure diagnostic, no
\* structural diagnostic, and still every diagnostic of the line-oriented rules
\* over its raw lines.
C1_ParseFailureKeepsTextRules ==
    Analysed =>
        \A i \in 1..Len(GoFilesOf(root)) :
            LET f == GoFilesOf(root)[i]
                textDiags == scanFileForPatterns(f.path, f.lines)
            IN  f.parseErr =>
                    /\ Count(errs, Diag(f.path, NoLine, MsgParseFailure)) = 1
                    /\ DiagsOf(errs, f.path) =
                           <<Diag(f.path, NoLine, MsgParseFailure)>> \o textDiags

\* C2: the process exits with code 1 exactly when diagnostics were collected, and
\* then the header and every diagnostic are printed.
C2_ExitCodeTracksDiagnostics ==
    pc = "exit" =>
        /\ (exitCode = 1) <=> (Len(errs) > 0)
        /\ Len(errs) > 0 =>
              /\ Len(stdout) = Len(errs) + 1
              /\ stdout[1] = "Validation failed:"
              /\ \A i \in 1..Len(errs) : stdout[i + 1] = " - " \o Format(errs[i])

\* the calls claim C3 counts as error construction or failure report
IsErrorConstruction(line) == IsErrorCallLine(line) \/ Contains(line, "errors.New(")

\* C3: a line calling an error constructor, errors.New included, with a literal
\* that starts with an uppercase letter and ends with a period gets exactly the
\* capitalized and the trailing-period diagnostics.
C3_ErrorsNewFlagged ==
    pc = "scanned" =>
        \A i \in 1..Len(root.files[1].lines) :
            LET line == root.files[1].lines[i]
                lit == extractStringLiteral(line)
                At(d) == d.line = i
            IN  (IsErrorConstruction(line) /\ IsUpper(CharAt(lit, 1)) /\ HasSuffix(lit, "."))
                    => SelectSeq(errs, At) = <<Diag(root.path, i, MsgCapitalized),
                                               Diag(root.path, i, MsgPeriod)>>

\* the test files claim C4 is about: more than one Test function, no TestMain
ManyTestsNoMain(f) ==
    /\ HasSuffix(f.path, "_test.go")
    /\ ~f.parseErr
    /\ Len(testFuncs(f.decls)) > 1
    /\ \A i \in 1..Len(f.decls) : f.decls[i].kind = "func" => f.decls[i].name # "TestMain"

\* C4: a test file with several Test functions and no TestMain gets one "missing
\* TestMain" and one "multiple top-level test functions" diagnostic and never a
\* "does not follow table-driven test pattern" diagnostic.
C4_NoTableCheckOnManyTests ==
    Analysed =>
        \A i \in 1..Len(GoFilesOf(root)) :
            LET f == GoFilesOf(root)[i]
            IN  ManyTestsNoMain(f) =>
                    /\ Count(errs, Diag(f.path, NoLine, MsgMissingTestMain)) = 1
                    /\ Count(errs, Diag(f.path, NoLine, MsgMultipleTests)) = 1
                    /\ \A k \in 1..Len(f.decls) :
                          f.decls[k].kind = "func" =>
                              Diag(f.path, NoLine, MsgNotTableDriven(f.decls[k].name))
                                  \notin Range(errs)

\* the declarations the exported-doc rule is about
NeedsDoc(d) == d.kind = "func" /\ IsExported(d.name) /\ ~HasPrefix(d.name, "Test")

\* C5: an exported non-Test function gets "must have doc comment" exactly when it
\* has no documentation, "should end with '.'" exactly when it has documentation
\* whose trimmed text does not end with a period, and never both.
C5_AtMostOneDocDiagnostic ==
    Analysed =>
        \A i \in 1..Len(GoFilesOf(root)) :
            LET f == GoFilesOf(root)[i]
            IN  ~f.parseErr =>
                    \A k \in 1..Len(f.decls) :
                        LET d == f.decls[k]
                            missing == Count(errs, Diag(f.path, d.line, MsgMissingDoc(d.name)))
                            period == Count(errs, Diag(f.path, d.line, MsgDocPeriod))
                        IN  NeedsDoc(d) =>
                                /\ missing = (IF ~d.hasDoc THEN 1 ELSE 0)
                                /\ period = (IF d.hasDoc /\ ~HasSuffix(TrimSpace(d.doc), ".")
                                             THEN 1 ELSE 0)
                                /\ missing + period <= 1

\* a run analysed one file holding an undocumented exported function and one
\* whose documentation lacks the period
C5_Witness ==
    /\ pc = "exit"
    /\ \E i \in 1..Len(GoFilesOf(root)) :
          LET f == GoFilesOf(root)[i]
          IN  /\ ~f.parseErr
              /\ \E k, m \in 1..Len(f.decls) :
                    /\ NeedsDoc(f.decls[k]) /\ ~f.decls[k].hasDoc
                    /\ NeedsDoc(f.decls[m]) /\ f.decls[m].hasDoc
                    /\ ~HasSuffix(TrimSpace(f.decls[m].doc), ".")
                    /\ Diag(f.path, f.decls[k].line, MsgMissingDoc(f.decls[k].name)) \in Range(errs)
                    /\ Diag(f.path, f.decls[m].line, MsgDocPeriod) \in Range(errs)

\* C6: a second run on the same root yields the same set of diagnostics as the
\* run before it, whatever the order in which the scope's map was visited.
C6_SameDiagnosticSet ==
    (pc = "exit" /\ run > 1) => Range(errs) = Range(prevErrs)

\* two runs ended with the same diagnostics in different orders
C6_Witness ==
    /\ pc = "exit"
    /\ run > 1
    /\ errs # prevErrs
    /\ \E d \in Range(errs) : Contains(d.msg, "should not contain underscores")

\* the lists validateGoFile can append over the files fs, one after the other
RECURSIVE PossibleDiags(_)
PossibleDiags(fs) ==
    IF fs = <<>> THEN {<<>>}
    ELSE UNION {{FileDiags(f, o) \o rest :
                    o \in ObjectOrders(f.decls), rest \in PossibleDiags(Tail(fs))} :
                f \in {Head(fs)}}

\* C7: within a run every step only appends to the diagnostic list, and the list
\* main reports is the schema-file diagnostics followed by each .go file's own
\* diagnostics in walk order, the files after a parse failure included.
C7_AppendOnlyConcatenation ==
    /\ [][run' = run => IsPrefixOf(errs, errs')]_vars
    /\ [](pc = "report" =>
              \E fs \in {GoFilesOf(root)} :
                  errs \in {checkProtoFiles(root) \o ds : ds \in PossibleDiags(fs)})

\* a directory run reports a parse failure followed by a later file's diagnostics
C7_Witness ==
    /\ pc = "report"
    /\ root.kind = "dir"
    /\ \E i, j \in 1..Len(errs) :
          /\ i < j
          /\ errs[i].msg = MsgParseFailure
          /\ errs[j].path # errs[i].path

\* the parameters a function declares with a type that is neither exempt nor a
\* struct nor a pointer to a struct: every name of a field, an unnamed field once
RECURSIVE DeclaredNonStructParams(_)
DeclaredNonStructParams(params) ==
    IF params = <<>> THEN 0
    ELSE LET t == Head(params).type
             n == IF Len(Head(params).names) = 0 THEN 1 ELSE Len(Head(params).names)
         IN  (IF isAllowedParam(t) \/ isStructType(t) \/ isPointerToStruct(t) THEN 0 ELSE n)
             + DeclaredNonStructParams(Tail(params))

\* C8: a function is flagged exactly when more than one of its declared
\* parameters, each name of a grouped declaration counted, has a type that is
\* neither exempt nor a struct nor a pointer to a struct.
C8_FlaggedIffManyParams ==
    pc = "checked" =>
        LET fn == root.files[1].decls[1]
        IN  (errs = <<Diag(root.path, fn.line, MsgParams(fn.name))>>)
                <=> (DeclaredNonStructParams(fn.params) > 1)

\* C9: every diagnostic checkMixedCaps emits about a declaration carries that
\* declaration's 1-based line, and no diagnostic carries line 0.
C9_DeclarationLines ==
    Analysed =>
        /\ \A d \in Range(errs) : d.line = NoLine \/ d.line >= 1
        /\ \A i \in 1..Len(GoFilesOf(root)) :
              LET f == GoFilesOf(root)[i]
              IN  ~f.parseErr =>
                      \A k \in 1..Len(f.decls) :
                          \A d \in Range(MixedCapsDecl(f.path, f.decls[k])) :
                              [d EXCEPT !.line = f.decls[k].line] \in Range(errs)

\* C10: on a line the error-string rule matches, "should not be capitalized" is
\* emitted exactly when the literal starts with an uppercase letter, and "should
\* not end with '.'" exactly when it ends with a period.
C10_CapitalizedIffUppercase ==
    pc = "scanned" =>
        \A i \in 1..Len(root.files[1].lines) :
            LET line == root.files[1].lines[i]
                lit == extractStringLiteral(line)
            IN  IsErrorCallLine(line) =>
                    /\ (Diag(root.path, i, MsgCapitalized) \in Range(errs))
                           <=> IsUpper(CharAt(lit, 1))
                    /\ (Diag(root.path, i, MsgPeriod) \in Range(errs))
                           <=> HasSuffix(lit, ".")

====
